---- MODULE Spec2Model ----
(***************************************************************************)
(* Model of the CSV import engine of AntResearchDatabase                   *)
(* (src/csv_importer.py, class AntDatabaseImporter, and main()), of the    *)
(* text normalization functions, of AntResearchDB.import_from_csv and of   *)
(* the add_, update_ and delete_ operations of AntResearchDB (src/ARDB.py).*)
(* Specifications: Spec and FairSpec (the importer run), SpecNormalize,    *)
(* SpecARDB (import_from_csv), SpecOps (the operations).                   *)
(*                                                                         *)
(* Text is a sequence of one-character tokens.  The store is a record of   *)
(* tables, each table a set of row records.  The importer owns one sqlite  *)
(* connection: `conn` is what the connection sees (committed rows plus the *)
(* writes of the open transaction), `committed` is what is on disk.        *)
(***************************************************************************)
EXTENDS Integers, Sequences, FiniteSets, TLC

(***************************************************************************)
(* Bounds of the model                                                     *)
(***************************************************************************)
MaxSpeciesRows == 2
MaxResearchRows == 2
MaxRecordRows == 3
MaxTextLen == 3
MaxBatchRows == 2
MaxOps == 2

(***************************************************************************)
(* Text                                                                    *)
(***************************************************************************)
\* characters: ASCII letters, the ASCII space, the comma, and the tokens
\*   "FW_A" / "FW_a"  full-width latin letters  U+FF21 / U+FF41
\*   "IDSP"           ideographic space         U+3000
\*   "ACUTE"          spacing acute accent      U+00B4
\*   "COMB_ACUTE"     combining acute accent    U+0301
\*   "KA", "KI"       kana (no case, no compatibility mapping)
NA == <<"<NaN>">>   \* pandas' missing cell (float nan)

EMPTY == <<>>       \* the empty string ""

isna(text) == text = NA

\* str.isspace() for one character
IsSpace(c) == c \in {" ", "IDSP"}

\* str.strip(): drop leading and trailing whitespace
RECURSIVE LStrip(_)
LStrip(s) ==
    IF s = <<>> THEN <<>>
    ELSE IF IsSpace(Head(s)) THEN LStrip(Tail(s)) ELSE s

RECURSIVE RStrip(_)
RStrip(s) ==
    IF s = <<>> THEN <<>>
    ELSE IF IsSpace(s[Len(s)]) THEN RStrip(SubSeq(s, 1, Len(s) - 1)) ELSE s

strip(s) == RStrip(LStrip(s))

\* unicodedata.normalize('NFKC', .) for one character
NFKCChar(c) ==
    CASE c = "FW_A"  -> <<"A">>
      [] c = "FW_a"  -> <<"a">>
      [] c = "FW_B"  -> <<"B">>
      [] c = "FW_b"  -> <<"b">>
      [] c = "IDSP"  -> <<" ">>
      [] c = "ACUTE" -> <<" ", "COMB_ACUTE">>
      [] OTHER       -> <<c>>

RECURSIVE NFKC(_)
NFKC(s) == IF s = <<>> THEN <<>> ELSE NFKCChar(Head(s)) \o NFKC(Tail(s))

\* AntDatabaseImporter.normalize
normalize(text) == IF isna(text) THEN EMPTY ELSE NFKC(strip(text))

\* str.split() without arguments: the words between runs of whitespace
RECURSIVE WordsFrom(_, _)
WordsFrom(s, cur) ==
    IF s = <<>> THEN (IF cur = <<>> THEN <<>> ELSE <<cur>>)
    ELSE IF IsSpace(Head(s))
         THEN (IF cur = <<>> THEN <<>> ELSE <<cur>>) \o WordsFrom(Tail(s), <<>>)
         ELSE WordsFrom(Tail(s), Append(cur, Head(s)))

\* ' '.join(words)
RECURSIVE Join(_)
Join(words) ==
    IF words = <<>> THEN <<>>
    ELSE IF Len(words) = 1 THEN words[1]
    ELSE words[1] \o <<" ">> \o Join(Tail(words))

\* database/db_utils.normalize_text; `not text` holds for None and for ""
normalize_text(text) ==
    IF text = EMPTY THEN EMPTY ELSE Join(WordsFrom(NFKC(strip(text)), <<>>))

\* SQLite's NOCASE collation folds the ASCII upper-case letters only (here
\* the ones the input labels use); full-width letters and kana are kept
LowerChar(c) ==
    CASE c = "A" -> "a"
      [] c = "B" -> "b"
      [] c = "H" -> "h"
      [] c = "P" -> "p"
      [] c = "T" -> "t"
      [] c = "Z" -> "z"
      [] OTHER   -> c

RECURSIVE Lower(_)
Lower(s) == IF s = <<>> THEN <<>> ELSE <<LowerChar(Head(s))>> \o Lower(Tail(s))

EqNoCase(a, b) == Lower(a) = Lower(b)

\* str.split(','): the pieces between commas (always at least one piece)
RECURSIVE SplitFrom(_, _)
SplitFrom(s, cur) ==
    IF s = <<>> THEN <<cur>>
    ELSE IF Head(s) = "," THEN <<cur>> \o SplitFrom(Tail(s), <<>>)
    ELSE SplitFrom(Tail(s), Append(cur, Head(s)))

split(s) == SplitFrom(s, <<>>)

(***************************************************************************)
(* Store                                                                   *)
(***************************************************************************)
\* SQL NULL / Python None for a nullable value, and a present value
NULL == <<>>
Some(v) == <<v>>

Ids(table) == {r.id : r \in table}

MaxId(table) == CHOOSE m \in Ids(table) : \A i \in Ids(table) : i <= m

\* INTEGER PRIMARY KEY: the next rowid
NextId(table) == IF table = {} THEN 1 ELSE MaxId(table) + 1

EmptyDB ==
    [species           |-> {},
     species_synonyms  |-> {},
     research          |-> {},
     environment_types |-> {},
     methods           |-> {},
     survey_sites      |-> {},
     occurrences       |-> {}]

(***************************************************************************)
(* Cells of a parsed CSV row.  A text cell is NA or a string; a numeric    *)
(* cell is NaN, a number, or text that is not a number.                    *)
(***************************************************************************)
NaNCell == [kind |-> "nan", val |-> 0]
Num(n) == [kind |-> "num", val |-> n]
\* the float n + 0.5 of a column that pandas read as float64; int() of it
\* truncates to n
Frac(n) == [kind |-> "frac", val |-> n]

notna(cell) == cell.kind # "nan"

\* int(cell) / float(cell) raise ValueError unless the cell holds a number
IsNumber(cell) == cell.kind \in {"num", "frac"}

(***************************************************************************)
(* Schema constraints of database_schema.sql (spec section 6)              *)
(***************************************************************************)
\* species.scientific_name UNIQUE
SpeciesNameTaken(db, sci_name) ==
    \E s \in db.species : s.scientific_name = sci_name

\* species_synonyms.name_normalized UNIQUE
SynonymTaken(db, name_normalized) ==
    \E y \in db.species_synonyms : y.name_normalized = name_normalized

\* occurrences.abundance INTEGER >= 0
AbundanceCheck(abundance) == abundance >= 0

(***************************************************************************)
(* AntDatabaseImporter.get_or_create_id                                    *)
(* The result is the set of possible (store, id) pairs: fetchone() of a    *)
(* SELECT without ORDER BY may return any matching row.                    *)
(***************************************************************************)
get_or_create_id(db, table, name) ==
    LET normalized == normalize(name)
        found == {r \in db[table] : EqNoCase(r.name, normalized)}
    IN  IF normalized = EMPTY
        THEN {[db |-> db, id |-> NULL]}
        ELSE IF found # {}
        THEN {[db |-> db, id |-> Some(r.id)] : r \in found}
        ELSE LET new == NextId(db[table])
             IN  {[db |-> [db EXCEPT ![table] = @ \cup {[id |-> new, name |-> normalized]}],
                   id |-> Some(new)]}

(***************************************************************************)
(* AntDatabaseImporter.resolve_species: the set of possible results        *)
(***************************************************************************)
\* variant: species.scientific_name consulted before species_synonyms
resolve_species_ScientificFirst(db, name) ==
    LET normalized == normalize(name)
        by_synonym == {y \in db.species_synonyms : y.name_normalized = normalized}
        by_sci == {s \in db.species : EqNoCase(s.scientific_name, normalized)}
        by_jpn == {s \in db.species : EqNoCase(s.japanese_name, normalized)}
    IN  IF normalized = EMPTY THEN {NULL}
        ELSE IF by_sci # {} THEN {Some(s.id) : s \in by_sci}
        ELSE IF by_synonym # {} THEN {Some(y.species_id) : y \in by_synonym}
        ELSE IF by_jpn # {} THEN {Some(s.id) : s \in by_jpn}
        ELSE {NULL}

\* variant: the fallback on species.scientific_name without COLLATE NOCASE
resolve_species_CaseSensitive(db, name) ==
    LET normalized == normalize(name)
        by_synonym == {y \in db.species_synonyms : y.name_normalized = normalized}
        by_sci == {s \in db.species : s.scientific_name = normalized}
        by_jpn == {s \in db.species : s.japanese_name = normalized}
    IN  IF normalized = EMPTY THEN {NULL}
        ELSE IF by_synonym # {} THEN {Some(y.species_id) : y \in by_synonym}
        ELSE IF by_sci # {} THEN {Some(s.id) : s \in by_sci}
        ELSE IF by_jpn # {} THEN {Some(s.id) : s \in by_jpn}
        ELSE {NULL}

resolve_species(db, name) ==
    LET normalized == normalize(name)
        by_synonym == {y \in db.species_synonyms : y.name_normalized = normalized}
        by_sci == {s \in db.species : EqNoCase(s.scientific_name, normalized)}
        by_jpn == {s \in db.species : EqNoCase(s.japanese_name, normalized)}
    IN  IF normalized = EMPTY THEN {NULL}
        ELSE IF by_synonym # {} THEN {Some(y.species_id) : y \in by_synonym}
        ELSE IF by_sci # {} THEN {Some(s.id) : s \in by_sci}
        ELSE IF by_jpn # {} THEN {Some(s.id) : s \in by_jpn}
        ELSE {NULL}

(***************************************************************************)
(* AntDatabaseImporter.import_species, one row                             *)
(***************************************************************************)
\* INSERT OR IGNORE INTO species (...)
\* variant: INSERT OR REPLACE, the row of the name is deleted and re-inserted
InsertOrIgnoreSpecies_Replace(db, sci_name, jpn_name, subfamily, body_len_mm, red_list) ==
    [db EXCEPT !.species =
        {s \in @ : s.scientific_name # sci_name} \cup
        {[id |-> NextId(db.species),
          scientific_name |-> sci_name,
          japanese_name |-> jpn_name,
          subfamily |-> subfamily,
          body_len_mm |-> body_len_mm,
          red_list |-> red_list]}]

InsertOrIgnoreSpecies(db, sci_name, jpn_name, subfamily, body_len_mm, red_list) ==
    IF SpeciesNameTaken(db, sci_name) THEN db
    ELSE [db EXCEPT !.species = @ \cup
            {[id |-> NextId(db.species),
              scientific_name |-> sci_name,
              japanese_name |-> jpn_name,
              subfamily |-> subfamily,
              body_len_mm |-> body_len_mm,
              red_list |-> red_list]}]

\* variant: INSERT without OR IGNORE, a UNIQUE conflict raises
InsertOrIgnoreSynonym_Raise(r, species_id, name, name_normalized, synonym_type) ==
    IF ~r.ok THEN r
    ELSE IF SynonymTaken(r.db, name_normalized) THEN [ok |-> FALSE, db |-> r.db]
    ELSE [ok |-> TRUE,
          db |-> [r.db EXCEPT !.species_synonyms = @ \cup
                    {[id |-> NextId(r.db.species_synonyms),
                      species_id |-> species_id,
                      name |-> name,
                      name_normalized |-> name_normalized,
                      synonym_type |-> synonym_type]}]]

\* INSERT OR IGNORE INTO species_synonyms (...): [ok |-> FALSE] would be a
\* raised IntegrityError, which OR IGNORE never produces for a UNIQUE conflict
InsertOrIgnoreSynonym(r, species_id, name, name_normalized, synonym_type) ==
    IF ~r.ok THEN r
    ELSE IF SynonymTaken(r.db, name_normalized) THEN r
    ELSE [ok |-> TRUE,
          db |-> [r.db EXCEPT !.species_synonyms = @ \cup
                    {[id |-> NextId(r.db.species_synonyms),
                      species_id |-> species_id,
                      name |-> name,
                      name_normalized |-> name_normalized,
                      synonym_type |-> synonym_type]}]]

\* the loop over row['synonyms'].split(',')
RECURSIVE InsertAliases(_, _, _)
InsertAliases(r, species_id, syns) ==
    IF syns = <<>> THEN r
    ELSE LET syn == Head(syns)
             syn_norm == normalize(syn)
             r1 == IF syn_norm # EMPTY
                   THEN InsertOrIgnoreSynonym(r, species_id, syn, syn_norm, "alias")
                   ELSE r
         IN  InsertAliases(r1, species_id, Tail(syns))

\* the body of the try block for one row: the set of possible results
\* [conn, outcome, message], outcome "ok" (commit reached), "skipped"
\* (continue before the commit) or "error" (exception caught)
import_species_row(db, row) ==
    LET sci_name == normalize(row.scientific_name)
        jpn_name == normalize(row.japanese_name)
        db1 == InsertOrIgnoreSpecies(db, sci_name, jpn_name,
                   normalize(row.subfamily),
                   IF notna(row.body_len_mm) THEN Some(row.body_len_mm.val) ELSE NULL,
                   normalize(row.red_list))
    IN  { IF species_id = NULL
          THEN [conn |-> db1, outcome |-> "skipped", message |-> "none"]
          ELSE LET sid == species_id[1]
                   r0 == [ok |-> TRUE, db |-> db1]
                   r1 == InsertOrIgnoreSynonym(r0, sid, sci_name, sci_name, "primary")
                   r2 == InsertOrIgnoreSynonym(r1, sid, jpn_name, jpn_name, "primary")
                   r3 == IF ~isna(row.synonyms)
                         THEN InsertAliases(r2, sid, split(row.synonyms))
                         ELSE r2
               IN  IF r3.ok
                   THEN [conn |-> r3.db, outcome |-> "ok", message |-> "none"]
                   ELSE [conn |-> r3.db, outcome |-> "error",
                         message |-> "UNIQUE constraint failed"]
          : species_id \in resolve_species(db1, sci_name) }

(***************************************************************************)
(* AntDatabaseImporter.import_research, one row                            *)
(***************************************************************************)
import_research_row(db, row) ==
    LET title == normalize(row.title)
        author == normalize(row.author)
    IN  IF ~IsNumber(row.year)
        THEN {[conn |-> db, outcome |-> "error", message |-> "invalid literal for int()"]}
        ELSE {[conn |-> [db EXCEPT !.research = @ \cup
                          {[id |-> NextId(db.research),
                            title |-> title,
                            author |-> author,
                            year |-> row.year.val,
                            doi |-> normalize(row.doi),
                            file_path |-> normalize(row.file_path)]}],
               outcome |-> "ok", message |-> "none"]}

(***************************************************************************)
(* AntDatabaseImporter.import_records, one row                             *)
(***************************************************************************)
\* the literal defaults of row.get(column, default)
SONOTA == <<"SO", "NO", "TA">>
WORKER == <<"w", "o", "r", "k", "e", "r">>

\* row.get(column, default): the default applies when the file has no such
\* column; an empty cell of an existing column is NA
RowGet(row, columns, column, default) ==
    IF column \in columns THEN row[column] ELSE default

\* x or 0 for the optional coordinates
OrZero(x) == IF x = NULL THEN 0 ELSE x[1]

\* COALESCE(column, 0) for the stored coordinates
Coalesce0(x) == IF x = NULL THEN 0 ELSE x[1]

\* variant: the coordinates compared without COALESCE (NULL equals nothing)
SiteMatches_NoCoalesce(db, research_id, site_name, survey_date, lat, lon) ==
    {t \in db.survey_sites :
        /\ t.research_id = research_id
        /\ t.site_name = site_name
        /\ t.survey_date = survey_date
        /\ lat # NULL /\ t.latitude = lat
        /\ lon # NULL /\ t.longitude = lon}

\* SELECT id FROM survey_sites WHERE research_id = ? AND site_name = ? AND
\* COALESCE(survey_date,'') = ? AND COALESCE(latitude,0) = COALESCE(?,0) AND ...
SiteMatches(db, research_id, site_name, survey_date, lat, lon) ==
    {t \in db.survey_sites :
        /\ t.research_id = research_id
        /\ t.site_name = site_name
        /\ t.survey_date = survey_date
        /\ Coalesce0(t.latitude) = OrZero(lat)
        /\ Coalesce0(t.longitude) = OrZero(lon)}

\* SELECT id, abundance FROM occurrences WHERE site_id = ? AND species_id = ?
\* AND method_id = ? AND unit = ?  (a NULL method_id compares equal to nothing)
OccurrenceMatches(db, site_id, species_id, method_id, unit) ==
    {o \in db.occurrences :
        /\ o.site_id = site_id
        /\ o.species_id = species_id
        /\ method_id # NULL
        /\ o.method_id # NULL
        /\ o.method_id = method_id
        /\ o.unit = unit}

\* variant: a repeat mention overwrites the elevation and environment
SiteUpsert_Overwrite(db, research_id, site_name, survey_date, env_id, lat, lon, elev) ==
    LET found == SiteMatches(db, research_id, site_name, survey_date, lat, lon)
    IN  IF found # {}
        THEN {[db |-> [db EXCEPT !.survey_sites =
                        (@ \ {t}) \cup {[t EXCEPT !.elevation_m = elev,
                                                  !.env_type_id = env_id]}],
               id |-> t.id, created |-> FALSE] : t \in found}
        ELSE LET new == NextId(db.survey_sites)
             IN  {[db |-> [db EXCEPT !.survey_sites = @ \cup
                            {[id |-> new,
                              research_id |-> research_id,
                              site_name |-> site_name,
                              survey_date |-> survey_date,
                              env_type_id |-> env_id,
                              latitude |-> lat,
                              longitude |-> lon,
                              elevation_m |-> elev]}],
                   id |-> new, created |-> TRUE]}

\* step 3 of the row: site lookup or insert; the set of (store, site id)
SiteUpsert(db, research_id, site_name, survey_date, env_id, lat, lon, elev) ==
    LET found == SiteMatches(db, research_id, site_name, survey_date, lat, lon)
    IN  IF found # {}
        THEN {[db |-> db, id |-> t.id, created |-> FALSE] : t \in found}
        ELSE LET new == NextId(db.survey_sites)
             IN  {[db |-> [db EXCEPT !.survey_sites = @ \cup
                            {[id |-> new,
                              research_id |-> research_id,
                              site_name |-> site_name,
                              survey_date |-> survey_date,
                              env_type_id |-> env_id,
                              latitude |-> lat,
                              longitude |-> lon,
                              elevation_m |-> elev]}],
                   id |-> new, created |-> TRUE]}

\* step 5 of the row: add to the existing occurrence or insert a new one
OccurrenceMerge(db, site_id, species_id, method_id, abundance, unit) ==
    LET found == OccurrenceMatches(db, site_id, species_id, method_id, unit)
    IN  IF found # {}
        THEN {[db |-> [db EXCEPT !.occurrences =
                        (@ \ {existing}) \cup
                        {[existing EXCEPT !.abundance = existing.abundance + abundance]}],
               ok |-> AbundanceCheck(existing.abundance + abundance)]
              : existing \in found}
        ELSE {[db |-> [db EXCEPT !.occurrences = @ \cup
                        {[id |-> NextId(db.occurrences),
                          site_id |-> site_id,
                          species_id |-> species_id,
                          method_id |-> method_id,
                          abundance |-> abundance,
                          unit |-> unit]}],
               ok |-> AbundanceCheck(abundance)]}

\* the natural key and abundance a committed record row was merged under
NoOcc == [site_id |-> 0, species_id |-> 0, method_id |-> NULL, unit |-> EMPTY,
          abundance |-> 0]

\* the research row and site a record row resolved (0: step not reached)
NoSite == [research_id |-> 0, site_id |-> 0, created |-> FALSE]

Fail(db, message, site) ==
    [conn |-> db, outcome |-> "error", message |-> message, occ |-> NoOcc,
     site |-> site]

\* steps 4 and 5, after the site is known
RecordSpeciesAndOccurrence(db, row, columns, site, method_id) ==
    LET species_name == normalize(row.species_name)
        abundance_cell == RowGet(row, columns, "abundance", Num(1))
        unit == normalize(RowGet(row, columns, "unit", WORKER))
    IN  UNION {
          IF species_id = NULL
          THEN {Fail(db, "Species not found", site)}
          ELSE IF ~IsNumber(abundance_cell)
          THEN {Fail(db, "invalid literal for int()", site)}
          ELSE { IF m.ok
                 THEN [conn |-> m.db, outcome |-> "ok", message |-> "none",
                       occ |-> [site_id |-> site.site_id, species_id |-> species_id[1],
                                method_id |-> method_id, unit |-> unit,
                                abundance |-> abundance_cell.val],
                       site |-> site]
                 ELSE Fail(db, "CHECK constraint failed", site)
                 : m \in OccurrenceMerge(db, site.site_id, species_id[1], method_id,
                                         abundance_cell.val, unit) }
          : species_id \in resolve_species(db, species_name) }

\* steps 2 to 5, after the research row is known
RecordAfterResearch(db, row, columns, research_id) ==
    UNION { UNION {
        LET db2 == m.db
            site_name == normalize(row.site_name)
            survey_date == normalize(RowGet(row, columns, "survey_date", EMPTY))
            lat_cell == RowGet(row, columns, "latitude", NaNCell)
            lon_cell == RowGet(row, columns, "longitude", NaNCell)
            elev_cell == RowGet(row, columns, "elevation_m", NaNCell)
        IN  IF \/ (notna(lat_cell) /\ ~IsNumber(lat_cell))
               \/ (notna(lon_cell) /\ ~IsNumber(lon_cell))
            THEN {Fail(db2, "could not convert string to float", NoSite)}
            ELSE IF notna(elev_cell) /\ ~IsNumber(elev_cell)
            THEN {Fail(db2, "invalid literal for int()", NoSite)}
            ELSE LET lat == IF notna(lat_cell) THEN Some(lat_cell.val) ELSE NULL
                     lon == IF notna(lon_cell) THEN Some(lon_cell.val) ELSE NULL
                     elev == IF notna(elev_cell) THEN Some(elev_cell.val) ELSE NULL
                 IN  UNION { RecordSpeciesAndOccurrence(st.db, row, columns,
                                 [research_id |-> research_id, site_id |-> st.id,
                                  created |-> st.created], m.id)
                             : st \in SiteUpsert(db2, research_id, site_name, survey_date,
                                                 e.id, lat, lon, elev) }
        : m \in get_or_create_id(e.db, "methods", RowGet(row, columns, "method", SONOTA)) }
        : e \in get_or_create_id(db, "environment_types",
                                 RowGet(row, columns, "environment", SONOTA)) }

\* variant: the dimension rows are created before the research lookup
import_records_row_DimensionsFirst(db, row, columns) ==
    LET research_title == normalize(row.research_title)
        research_rows == {r \in db.research : EqNoCase(r.title, research_title)}
    IN  IF research_rows = {}
        THEN {Fail(e.db, "Research not found", NoSite)
              : e \in get_or_create_id(db, "environment_types",
                                       RowGet(row, columns, "environment", SONOTA))}
        ELSE UNION { RecordAfterResearch(db, row, columns, r.id) : r \in research_rows }

\* the body of the try block for one row
import_records_row(db, row, columns) ==
    LET research_title == normalize(row.research_title)
        research_rows == {r \in db.research : EqNoCase(r.title, research_title)}
    IN  IF research_rows = {}
        THEN {Fail(db, "Research not found", NoSite)}
        ELSE UNION { RecordAfterResearch(db, row, columns, r.id) : r \in research_rows }

(***************************************************************************)
(* Input files.  A data directory gives, per phase, the rows its CSV file  *)
(* may hold (no rows: the file is absent or empty) and the optional        *)
(* columns records.csv has.                                                *)
(***************************************************************************)
T_AB == <<"A", "b">>
T_AB_UPPER == <<"A", "B">>
T_AB_WIDE == <<"FW_A", "b">>
T_BA == <<"B", "a">>
T_KAKI == <<"KA", "KI">>
T_KIKA == <<"KI", "KA">>
T_KA == <<"KA">>
T_KI == <<"KI">>

SpeciesRow(sci, jpn, syns) ==
    [scientific_name |-> sci, japanese_name |-> jpn, subfamily |-> NA,
     body_len_mm |-> NaNCell, red_list |-> NA, synonyms |-> syns]

SpeciesRows ==
    { SpeciesRow(T_AB, T_KAKI, <<"KA">>),
      SpeciesRow(T_BA, T_KIKA, <<"KA", ",", " ", "KI">>),
      SpeciesRow(T_AB_WIDE, T_KAKI, NA),
      SpeciesRow(T_KA, T_KI, NA),
      SpeciesRow(NA, T_KI, NA),
      SpeciesRow(T_BA, NA, <<"KI", ",">>) }

T_TITLE == <<"T", "a">>
T_TITLE_LOWER == <<"t", "a">>
T_AUTHOR == <<"a">>

ResearchRow(title, year) ==
    [title |-> title, author |-> T_AUTHOR, year |-> year, doi |-> NA, file_path |-> NA]

ResearchRows ==
    { ResearchRow(T_TITLE, Num(2020)),
      ResearchRow(T_TITLE, NaNCell),
      ResearchRow(<<"b">>, Num(2021)) }

T_PITFALL == <<"P", " ", "T">>
T_PITFALL_LOWER_WIDE == <<"p", " ", " ", "t">>
T_SITE == <<"s">>

RecordRow(title, site, lat, elev, env, method, species, abundance) ==
    [research_title |-> title, site_name |-> site, survey_date |-> NA,
     latitude |-> lat, longitude |-> NaNCell, elevation_m |-> elev,
     environment |-> env, method |-> method, species_name |-> species,
     abundance |-> abundance, unit |-> NA]

RecordRows ==
    { RecordRow(T_TITLE, T_SITE, NaNCell, Num(100), <<"f">>, T_PITFALL, T_AB, Num(15)),
      RecordRow(T_TITLE, T_SITE, NaNCell, Num(200), <<"g">>, T_PITFALL, T_KA, Num(8)),
      RecordRow(T_TITLE_LOWER, T_SITE, Num(0), NaNCell, NA, T_PITFALL_LOWER_WIDE,
                T_AB_UPPER, Num(8)),
      RecordRow(T_TITLE, T_SITE, NaNCell, Num(100), <<"f">>, NA, T_AB, Num(15)),
      RecordRow(T_TITLE, T_SITE, Num(35), Num(100), <<"f">>, T_PITFALL, T_AB, NaNCell),
      RecordRow(T_TITLE, <<"u">>, NaNCell, NaNCell, <<"h">>, <<"H">>, <<"Z">>, Num(1)),
      RecordRow(<<"Z">>, T_SITE, NaNCell, Num(100), <<"f">>, T_PITFALL, T_AB, Num(15)) }

OptionalColumns ==
    {"survey_date", "latitude", "longitude", "elevation_m", "environment",
     "method", "abundance", "unit"}

\* record rows whose abundance cell is a count, a negative number and a
\* number with a fraction
AbundanceRows ==
    { RecordRow(T_TITLE, T_SITE, NaNCell, Num(100), <<"f">>, T_PITFALL, T_AB, Num(15)),
      RecordRow(T_TITLE, T_SITE, NaNCell, Num(100), <<"f">>, T_PITFALL, T_AB, Num(-5)),
      RecordRow(T_TITLE, T_SITE, NaNCell, Num(100), <<"f">>, T_PITFALL, T_AB, Frac(2)) }

\* a research.csv in which a reference is listed on more than one line
RepeatedResearchRows ==
    { ResearchRow(T_TITLE, Num(2020)), ResearchRow(<<"b">>, Num(2021)) }

\* `faults`: the database file can fail under the run (locked by another
\* process, disk error), so that an execute() raises sqlite3.OperationalError;
\* `research_len`: the number of lines of research.csv
DataDirs ==
    { [species |-> SpeciesRows, research |-> {}, records |-> {},
       columns |-> OptionalColumns, faults |-> FALSE, research_len |-> 0],
      [species |-> {SpeciesRow(T_AB, T_KAKI, <<"KA">>)},
       research |-> ResearchRows,
       records |-> RecordRows,
       columns |-> OptionalColumns \ {"unit"}, faults |-> FALSE, research_len |-> 1],
      [species |-> {SpeciesRow(T_AB, T_KAKI, <<"KA">>)},
       research |-> {ResearchRow(T_TITLE, Num(2020))},
       records |-> {r \in RecordRows : r.method = T_PITFALL /\ r.abundance # Num(8)},
       columns |-> OptionalColumns \ {"method", "abundance"}, faults |-> FALSE,
       research_len |-> 1],
      [species |-> {SpeciesRow(T_AB, T_KAKI, <<"KA">>)},
       research |-> {ResearchRow(T_TITLE, Num(2020))},
       records |-> AbundanceRows,
       columns |-> OptionalColumns, faults |-> FALSE, research_len |-> 1],
      [species |-> {SpeciesRow(T_AB, T_KAKI, NA)},
       research |-> {ResearchRow(T_TITLE, Num(2020))},
       records |-> {RecordRow(T_TITLE, T_SITE, NaNCell, Num(100), <<"f">>, T_PITFALL,
                              T_AB, Num(15))},
       columns |-> OptionalColumns, faults |-> TRUE, research_len |-> 1],
      [species |-> {}, research |-> RepeatedResearchRows, records |-> {},
       columns |-> OptionalColumns, faults |-> FALSE, research_len |-> 2] }

(***************************************************************************)
(* The run: main() of csv_importer.py / create_antdb_csv.py                *)
(***************************************************************************)
VARIABLES
    data,          \* the data directory of this run
    pc,            \* "species", "research", "records", "finish", "closed"
    idx,           \* pandas index of the next row of the current file
    conn,          \* the store as the connection sees it
    committed,     \* the committed store
    error_log,     \* AntDatabaseImporter.error_log
    last,          \* the row processed by the latest step, and its outcome
    failed_writes, \* history: rows inserted by input rows that did not commit
    accum,         \* history: per natural key, the abundances committed
    imported       \* history: the species rows whose statements ran so far

importer_vars ==
    <<data, pc, idx, conn, committed, error_log, last, failed_writes, accum,
      imported>>

\* the two normalization functions applied to a pair of texts
VARIABLES
    text_x,        \* an input text
    text_y,        \* a text that differs from text_x in form only
    norm           \* what normalize and normalize_text return for them

norm_vars == <<text_x, text_y, norm>>

\* the state of one call of AntResearchDB.import_from_csv (ARDB.py)
VARIABLES
    ardb,          \* the store of AntResearchDB
    data_type,     \* the data_type argument
    csv_data,      \* data = read_csv_file(file_path)
    call_pc,       \* "idle", "called", "loop", "returned"
    row_no,        \* the number of rows the loop has processed
    success_count,
    error_count,
    errors,
    returned       \* the value returned to the caller, <<>> before that

ardb_vars ==
    <<ardb, data_type, csv_data, call_pc, row_no, success_count, error_count,
      errors, returned>>

\* calls of the public add_, update_ and delete_ methods of AntResearchDB
VARIABLES
    op,            \* the latest call: its name, arguments and return value
    calls          \* the number of calls made

ops_vars == <<op, calls>>

vars == <<importer_vars, norm_vars, ardb_vars, ops_vars>>

\* the tables of AntResearchDB the import of species and occurrences uses
\* `seq` is sqlite_sequence: every id is INTEGER PRIMARY KEY AUTOINCREMENT,
\* the id of a deleted row is not given out again
EmptyStore ==
    [species          |-> {},
     species_synonyms |-> {},
     research         |-> {},
     survey_sites     |-> {},
     methods          |-> {},
     units            |-> {},
     occurrences      |-> {},
     seq              |-> [species |-> 0, species_synonyms |-> 0, research |-> 0,
                           survey_sites |-> 0, occurrences |-> 0]]

NoCall == [name |-> "none"]

OpsIdle ==
    /\ op = NoCall
    /\ calls = 0

ArdbIdle ==
    /\ ardb = EmptyStore
    /\ data_type = "none"
    /\ csv_data = <<>>
    /\ call_pc = "idle"
    /\ row_no = 0
    /\ success_count = 0
    /\ error_count = 0
    /\ errors = <<>>
    /\ returned = <<>>
    /\ OpsIdle

\* the calls whose results the normalization properties compare
Keys(x, y) ==
    [x   |-> normalize(x),
     y   |-> normalize(y),
     xx  |-> normalize(normalize(x)),
     tx  |-> normalize_text(x),
     ty  |-> normalize_text(y),
     txx |-> normalize_text(normalize_text(x))]

NormIdle ==
    /\ text_x = EMPTY
    /\ text_y = EMPTY
    /\ norm = Keys(EMPTY, EMPTY)

Tables == DOMAIN EmptyDB

NoRow == [phase |-> "none", idx |-> 0, outcome |-> "none"]

Init ==
    /\ data \in DataDirs
    /\ pc = "species"
    /\ idx = 0
    /\ conn = EmptyDB
    /\ committed = EmptyDB
    /\ error_log = <<>>
    /\ last = NoRow
    /\ failed_writes = {}
    /\ accum = {}
    /\ imported = {}
    /\ NormIdle
    /\ ArdbIdle

\* the first execute() of the try block raises sqlite3.OperationalError:
\* nothing is written, the exception reaches the except clause of the row
LOCKED == "database is locked"

StoreFailure(db, faults) ==
    IF faults THEN {Fail(db, LOCKED, NoSite)} ELSE {}

\* variant: no commit inside the loop
CommitRow_Never(db, on_disk, outcome) == on_disk

\* self.conn.commit() at the end of a row that raised nothing; a row that
\* raised or was skipped leaves the transaction open
CommitRow(db, on_disk, outcome) == IF outcome = "ok" THEN db ELSE on_disk

\* variant: except ValueError, a store failure is not logged by the row
LogError_DomainOnly(log, i, outcome, message) ==
    IF outcome = "error" /\ message # LOCKED
    THEN Append(log, [row_index |-> i, message |-> message])
    ELSE log

\* except Exception as e: self.error_log.append(f"Row {idx}: {e}")
LogError(log, i, outcome, message) ==
    IF outcome = "error"
    THEN Append(log, [row_index |-> i, message |-> message])
    ELSE log

\* the rows a step added to the connection's view
NewRows(phase, before, after) ==
    UNION {{[phase |-> phase, table |-> t, id |-> r.id] : r \in after[t] \ before[t]}
           : t \in Tables}

\* for idx, row in df.iterrows(): one iteration
RowStep(phase, row, res) ==
    /\ conn' = res.conn
    /\ committed' = CommitRow(res.conn, committed, res.outcome)
    /\ error_log' = LogError(error_log, idx, res.outcome, res.message)
    /\ idx' = idx + 1
    /\ last' = IF phase = "records"
               THEN [phase |-> phase, idx |-> idx, outcome |-> res.outcome, row |-> row,
                     message |-> res.message, site |-> res.site, occ |-> res.occ]
               ELSE [phase |-> phase, idx |-> idx, outcome |-> res.outcome, row |-> row,
                     message |-> res.message]
    /\ imported' = IF phase = "species" /\ res.message # LOCKED
                   THEN imported \cup {row}
                   ELSE imported
    /\ failed_writes' = IF res.outcome = "ok" THEN failed_writes
                        ELSE failed_writes \cup NewRows(phase, conn, res.conn)
    /\ UNCHANGED <<data, pc, norm_vars, ardb_vars, ops_vars>>

ImportSpeciesRow ==
    /\ pc = "species"
    /\ idx < MaxSpeciesRows
    /\ \E row \in data.species :
       \E res \in import_species_row(conn, row) \cup StoreFailure(conn, data.faults) :
          /\ RowStep("species", row, res)
          /\ UNCHANGED accum

ImportResearchRow ==
    /\ pc = "research"
    /\ idx < MaxResearchRows
    /\ idx < data.research_len
    /\ \E row \in data.research :
       \E res \in import_research_row(conn, row) \cup StoreFailure(conn, data.faults) :
          /\ RowStep("research", row, res)
          /\ UNCHANGED accum

OccKey(occ) == [site_id |-> occ.site_id, species_id |-> occ.species_id,
                method_id |-> occ.method_id, unit |-> occ.unit]

Accumulate(acc, occ) ==
    IF \E a \in acc : a.key = OccKey(occ)
    THEN {IF a.key = OccKey(occ) THEN [a EXCEPT !.total = @ + occ.abundance] ELSE a
          : a \in acc}
    ELSE acc \cup {[key |-> OccKey(occ), total |-> occ.abundance]}

ImportRecordsRow ==
    /\ pc = "records"
    /\ idx < MaxRecordRows
    /\ \E row \in data.records :
       \E res \in import_records_row(conn, row, data.columns)
                   \cup StoreFailure(conn, data.faults) :
          /\ RowStep("records", row, res)
          /\ accum' = IF res.outcome = "ok" THEN Accumulate(accum, res.occ) ELSE accum

\* variant: records.csv is imported before research.csv
NextPhase_RecordsFirst ==
    /\ pc \in {"species", "research", "records"}
    /\ pc' = CASE pc = "species" -> "records"
               [] pc = "records" -> "research"
               [] pc = "research" -> "finish"
    /\ idx' = 0
    /\ UNCHANGED <<data, conn, committed, error_log, last, failed_writes, accum,
                   imported>>
    /\ UNCHANGED <<norm_vars, ardb_vars, ops_vars>>

\* the end of a file: main() goes on to the next phase
NextPhase ==
    /\ pc \in {"species", "research", "records"}
    /\ pc' = CASE pc = "species" -> "research"
               [] pc = "research" -> "records"
               [] pc = "records" -> "finish"
    /\ idx' = 0
    /\ UNCHANGED <<data, conn, committed, error_log, last, failed_writes, accum,
                   imported>>
    /\ UNCHANGED <<norm_vars, ardb_vars, ops_vars>>

\* csv_importer.main: save_error_log(); close().  Closing the connection
\* discards the open transaction.
Close ==
    /\ pc = "finish"
    /\ pc' = "closed"
    /\ conn' = committed
    /\ UNCHANGED <<data, idx, committed, error_log, last, failed_writes, accum,
                   imported>>
    /\ UNCHANGED <<norm_vars, ardb_vars, ops_vars>>

\* create_antdb_csv.main: conn.commit(); save_error_log(); close()
CommitAndClose ==
    /\ pc = "finish"
    /\ pc' = "closed"
    /\ committed' = conn
    /\ UNCHANGED <<data, idx, conn, error_log, last, failed_writes, accum,
                   imported>>
    /\ UNCHANGED <<norm_vars, ardb_vars, ops_vars>>

Next ==
    \/ ImportSpeciesRow
    \/ ImportResearchRow
    \/ ImportRecordsRow
    \/ NextPhase
    \/ Close
    \/ CommitAndClose

Spec == Init /\ [][Next]_vars

\* main() runs in one thread and every call it makes returns: a run keeps
\* taking steps as long as one is possible
FairSpec == Spec /\ WF_vars(Next)

(***************************************************************************)
(* The normalization functions on their own: AntDatabaseImporter.normalize *)
(* and database/db_utils.normalize_text applied to a text and to texts     *)
(* that differ from it in form only                                        *)
(***************************************************************************)
NormAlphabet == {"a", "A", " ", "ACUTE"}

\* the strings of at most n characters
Texts(n) == UNION {[1..k -> NormAlphabet] : k \in 0..n}

\* no import runs
ImporterIdle ==
    /\ data = [species |-> {}, research |-> {}, records |-> {}, columns |-> {},
               faults |-> FALSE, research_len |-> 0]
    /\ pc = "closed"
    /\ idx = 0
    /\ conn = EmptyDB
    /\ committed = EmptyDB
    /\ error_log = <<>>
    /\ last = NoRow
    /\ failed_writes = {}
    /\ accum = {}
    /\ imported = {}

NormInit ==
    /\ text_x \in Texts(MaxTextLen) \cup {NA}
    /\ text_y = text_x
    /\ norm = Keys(text_x, text_y)
    /\ ImporterIdle
    /\ ArdbIdle

\* the same character in the other width form
OtherWidth(c) ==
    CASE c = "a"    -> "FW_a"
      [] c = "FW_a" -> "a"
      [] c = "A"    -> "FW_A"
      [] c = "FW_A" -> "A"
      [] c = " "    -> "IDSP"
      [] c = "IDSP" -> " "
      [] OTHER      -> c

\* the same ASCII letter in the other case
OtherCase(c) ==
    CASE c = "a" -> "A"
      [] c = "A" -> "a"
      [] OTHER   -> c

\* normalize / normalize_text applied to the text and its variant
Renormalize(y) ==
    /\ text_y' = y
    /\ norm' = Keys(text_x, y)
    /\ UNCHANGED <<text_x, importer_vars, ardb_vars, ops_vars>>

ChangeWidth ==
    /\ text_y # NA
    /\ \E i \in 1..Len(text_y) :
          /\ OtherWidth(text_y[i]) # text_y[i]
          /\ Renormalize([text_y EXCEPT ![i] = OtherWidth(@)])

ChangeCase ==
    /\ text_y # NA
    /\ \E i \in 1..Len(text_y) :
          /\ OtherCase(text_y[i]) # text_y[i]
          /\ Renormalize([text_y EXCEPT ![i] = OtherCase(@)])

PadWhitespace ==
    /\ text_y # NA
    /\ Len(text_y) < MaxTextLen
    /\ \E w \in {" ", "IDSP"} :
          \/ Renormalize(<<w>> \o text_y)
          \/ Renormalize(Append(text_y, w))

\* position i is whitespace between two words
Internal(s, i) ==
    /\ IsSpace(s[i])
    /\ \E j \in 1..(i - 1) : ~IsSpace(s[j])
    /\ \E k \in (i + 1)..Len(s) : ~IsSpace(s[k])

StretchRun ==
    /\ text_y # NA
    /\ Len(text_y) <= MaxTextLen
    /\ \E i \in 1..Len(text_y) :
          /\ Internal(text_y, i)
          /\ Renormalize(SubSeq(text_y, 1, i) \o <<" ">>
                         \o SubSeq(text_y, i + 1, Len(text_y)))

NormNext ==
    \/ ChangeWidth
    \/ ChangeCase
    \/ PadWhitespace
    \/ StretchRun

SpecNormalize == NormInit /\ [][NormNext]_vars

(***************************************************************************)
(* AntResearchDB.import_from_csv (ARDB.py) for the data types 'species'    *)
(* and 'occurrences'.  csv.DictReader gives every cell as a string; a row  *)
(* shorter than the header has None in its missing cells.                  *)
(***************************************************************************)
NONE == <<"<None>">>                       \* None in a text cell
EmptyCell == [kind |-> "empty", val |-> 0] \* the string ''
NoneCell == [kind |-> "none", val |-> 0]   \* None
WordCell == [kind |-> "word", val |-> 0]   \* a string that is no number

\* bool(cell): '' and None are false
Truthy(cell) == cell.kind \notin {"empty", "none"}

\* db_utils.parse_int: None when the string is empty or no number
parse_int(cell) == IF cell.kind = "num" THEN Some(cell.val) ELSE NULL

\* cursor.lastrowid of an INSERT into an AUTOINCREMENT table
NextSeq(db, table) == db.seq[table] + 1

\* AntResearchDB._add_synonym
add_synonym(db, species_id, name, syn_type) ==
    IF name = EMPTY \/ strip(name) = EMPTY THEN db
    ELSE LET normalized == normalize_text(name)
         IN  IF \E y \in db.species_synonyms : y.name_normalized = normalized
             THEN db
             ELSE IF species_id \notin Ids(db.species)
             THEN db
             ELSE [db EXCEPT !.species_synonyms = @ \cup
                     {[id |-> NextSeq(db, "species_synonyms"),
                       species_id |-> species_id,
                       name |-> name,
                       name_normalized |-> normalized,
                       type |-> syn_type]},
                     !.seq.species_synonyms = @ + 1]

RECURSIVE add_synonyms(_, _, _)
add_synonyms(db, species_id, synonyms) ==
    IF synonyms = <<>> THEN db
    ELSE add_synonyms(add_synonym(db, species_id, Head(synonyms), "synonym"),
                      species_id, Tail(synonyms))

\* AntResearchDB.add_species: the store and the new id, NULL for None
add_species(db, scientific_name, japanese_name, synonyms) ==
    IF scientific_name = EMPTY \/ japanese_name = EMPTY
    THEN [db |-> db, id |-> NULL]
    ELSE IF \E s \in db.species : s.scientific_name = scientific_name
    THEN [db |-> db, id |-> NULL]
    ELSE LET species_id == NextSeq(db, "species")
             db1 == [db EXCEPT !.species = @ \cup
                       {[id |-> species_id,
                         scientific_name |-> scientific_name,
                         japanese_name |-> japanese_name]},
                       !.seq.species = species_id]
             db2 == add_synonym(db1, species_id, scientific_name, "scientific")
             db3 == add_synonym(db2, species_id, japanese_name, "japanese")
         IN  [db |-> add_synonyms(db3, species_id, synonyms), id |-> Some(species_id)]

\* validate_required_fields: str(value).strip() is empty; str(None) is 'None'
TextMissing(text) == strip(text) = EMPTY

\* [s.strip() for s in data['synonyms'].split(',') if s.strip()]
RECURSIVE StripAll(_)
StripAll(pieces) ==
    IF pieces = <<>> THEN <<>>
    ELSE IF strip(Head(pieces)) = EMPTY THEN StripAll(Tail(pieces))
    ELSE <<strip(Head(pieces))>> \o StripAll(Tail(pieces))

\* the result of a row handler: the store, and "true", "false" or "raise"
RowResult(db, result, error) == [db |-> db, result |-> result, error |-> error]

IMPORT_FAILED == "import failed"

\* AntResearchDB._import_species
import_species(db, row) ==
    IF TextMissing(row.scientific_name) \/ TextMissing(row.japanese_name)
    THEN RowResult(db, "false", IMPORT_FAILED)
    ELSE IF row.scientific_name = NONE \/ row.japanese_name = NONE
    THEN RowResult(db, "raise", "'NoneType' object has no attribute 'strip'")
    ELSE LET synonyms == IF row.synonyms \notin {EMPTY, NONE}
                         THEN StripAll(split(row.synonyms))
                         ELSE <<>>
             r == add_species(db, strip(row.scientific_name),
                              strip(row.japanese_name), synonyms)
         IN  IF r.id # NULL
             THEN RowResult(r.db, "true", "none")
             ELSE RowResult(r.db, "false", IMPORT_FAILED)

\* UNIQUE(site_id, species_id, method_id, unit_id); NULLs are distinct
OccurrenceTaken(db, site_id, species_id, method_id, unit_id) ==
    /\ method_id # NULL
    /\ unit_id # NULL
    /\ \E o \in db.occurrences :
          /\ o.site_id = site_id
          /\ o.species_id = species_id
          /\ o.method_id = method_id
          /\ o.unit_id = unit_id

\* variant: a row with the same key has the abundance added to it
add_occurrence_Merge(db, site_id, species_id, method_id, unit_id, abundance) ==
    IF OccurrenceTaken(db, site_id, species_id, method_id, unit_id)
    THEN LET o == CHOOSE x \in db.occurrences :
                      /\ x.site_id = site_id
                      /\ x.species_id = species_id
                      /\ x.method_id = method_id
                      /\ x.unit_id = unit_id
         IN  [db |-> [db EXCEPT !.occurrences =
                         (@ \ {o}) \cup {[o EXCEPT !.abundance = @ + abundance]}],
              id |-> Some(o.id)]
    ELSE IF site_id \notin Ids(db.survey_sites) \/ species_id \notin Ids(db.species)
            \/ abundance < 0
    THEN [db |-> db, id |-> NULL]
    ELSE [db |-> [db EXCEPT !.occurrences = @ \cup
                    {[id |-> NextSeq(db, "occurrences"),
                      site_id |-> site_id,
                      species_id |-> species_id,
                      method_id |-> method_id,
                      unit_id |-> unit_id,
                      abundance |-> abundance]},
                    !.seq.occurrences = @ + 1],
          id |-> Some(NextSeq(db, "occurrences"))]

\* AntResearchDB.add_occurrence: the store and the new id, NULL for None
add_occurrence(db, site_id, species_id, method_id, unit_id, abundance) ==
    LET method == IF method_id # NULL /\ method_id[1] \notin Ids(db.methods)
                  THEN NULL ELSE method_id
        unit == IF unit_id # NULL /\ unit_id[1] \notin Ids(db.units)
                THEN NULL ELSE unit_id
    IN  IF site_id = 0 \/ species_id = 0 THEN [db |-> db, id |-> NULL]
        ELSE IF site_id \notin Ids(db.survey_sites) THEN [db |-> db, id |-> NULL]
        ELSE IF species_id \notin Ids(db.species) THEN [db |-> db, id |-> NULL]
        ELSE IF abundance < 0 THEN [db |-> db, id |-> NULL]
        ELSE IF OccurrenceTaken(db, site_id, species_id, method, unit)
        THEN [db |-> db, id |-> NULL]
        ELSE [db |-> [db EXCEPT !.occurrences = @ \cup
                        {[id |-> NextSeq(db, "occurrences"),
                          site_id |-> site_id,
                          species_id |-> species_id,
                          method_id |-> method,
                          unit_id |-> unit,
                          abundance |-> abundance]},
                        !.seq.occurrences = @ + 1],
              id |-> Some(NextSeq(db, "occurrences"))]

\* AntResearchDB._import_occurrence
import_occurrence(db, row) ==
    IF row.site_id.kind = "empty" \/ row.species_id.kind = "empty"
    THEN RowResult(db, "false", IMPORT_FAILED)
    ELSE IF Truthy(row.site_id) /\ row.site_id.kind # "num"
    THEN RowResult(db, "raise", "invalid site_id")
    ELSE IF Truthy(row.species_id) /\ row.species_id.kind # "num"
    THEN RowResult(db, "raise", "invalid species_id")
    ELSE IF ~Truthy(row.site_id)
    THEN RowResult(db, "raise", "KeyError: 'site_id'")
    ELSE IF ~Truthy(row.species_id)
    THEN RowResult(db, "raise", "KeyError: 'species_id'")
    ELSE LET abundance == IF row.abundance.kind = "num" THEN row.abundance.val ELSE 1
             r == add_occurrence(db, row.site_id.val, row.species_id.val,
                                 parse_int(row.method_id), parse_int(row.unit_id),
                                 abundance)
         IN  IF r.id # NULL
             THEN RowResult(r.db, "true", "none")
             ELSE RowResult(r.db, "false", IMPORT_FAILED)

SupportedTypes == {"species", "research", "sites", "occurrences"}

\* the dispatch on data_type inside the try block
import_row(db, type, row) ==
    IF type = "species" THEN import_species(db, row) ELSE import_occurrence(db, row)

\* variant: the index of the row counted from 0
AppendError_ZeroBased(errs, i, res, row) ==
    IF res.result = "true" THEN errs
    ELSE Append(errs, [row |-> i - 1, error |-> res.error, data |-> row])

\* errors.append({"row": i, "error": ..., "data": row}) in the else branch
\* and in the except clause
AppendError(errs, i, res, row) ==
    IF res.result = "true" THEN errs
    ELSE Append(errs, [row |-> i, error |-> res.error, data |-> row])

\* db_utils.generate_unique_hash: the md5 digest of f"{title}{author}{year}",
\* here the hashed string itself
generate_unique_hash(title, author, year) == title \o author \o <<ToString(year)>>

\* the store the calls start from: one species, one research with one
\* site, one method, one unit
Store0 ==
    [species          |-> {[id |-> 1, scientific_name |-> T_BA,
                            japanese_name |-> T_KIKA]},
     species_synonyms |-> {[id |-> 1, species_id |-> 1, name |-> T_BA,
                            name_normalized |-> T_BA, type |-> "scientific"],
                           [id |-> 2, species_id |-> 1, name |-> T_KIKA,
                            name_normalized |-> T_KIKA, type |-> "japanese"]},
     research         |-> {[id |-> 1, title |-> T_TITLE, author |-> T_AUTHOR,
                            year |-> 2020, doi |-> NULL,
                            unique_hash |-> generate_unique_hash(T_TITLE, T_AUTHOR,
                                                                 2020)]},
     survey_sites     |-> {[id |-> 1, research_id |-> 1, site_name |-> T_SITE]},
     methods          |-> {[id |-> 1, name |-> T_PITFALL]},
     units            |-> {[id |-> 1, name |-> WORKER]},
     occurrences      |-> {},
     seq              |-> [species |-> 1, species_synonyms |-> 2, research |-> 1,
                           survey_sites |-> 1, occurrences |-> 0]]

ArdbSpeciesRow(sci, jpn, syns) ==
    [scientific_name |-> sci, japanese_name |-> jpn, synonyms |-> syns]

ArdbSpeciesRows ==
    { ArdbSpeciesRow(T_AB, T_KAKI, <<"KA", ",", " ", "KI">>),
      ArdbSpeciesRow(EMPTY, T_KI, EMPTY),
      ArdbSpeciesRow(T_BA, <<" ">>, EMPTY),
      ArdbSpeciesRow(T_KA, NONE, NONE) }

ArdbOccurrenceRow(site, species, method, unit, abundance) ==
    [site_id |-> site, species_id |-> species, method_id |-> method,
     unit_id |-> unit, abundance |-> abundance]

ArdbOccurrenceRows ==
    { ArdbOccurrenceRow(Num(1), Num(1), Num(1), Num(1), Num(3)),
      ArdbOccurrenceRow(Num(1), Num(1), EmptyCell, EmptyCell, EmptyCell),
      ArdbOccurrenceRow(EmptyCell, Num(1), Num(1), Num(1), Num(3)),
      ArdbOccurrenceRow(WordCell, Num(1), Num(1), Num(1), Num(3)),
      ArdbOccurrenceRow(Num(1), NoneCell, NoneCell, NoneCell, NoneCell),
      ArdbOccurrenceRow(Num(9), Num(1), Num(1), Num(1), Num(3)),
      ArdbOccurrenceRow(Num(1), Num(1), Num(1), Num(1), Num(-1)) }

\* the sequences of at most n rows
Batches(rows, n) == UNION {[1..k -> rows] : k \in 0..n}

ArdbInit ==
    /\ ardb = Store0
    /\ data_type \in {"species", "occurrences", "specimens"}
    /\ csv_data \in CASE data_type = "species" -> Batches(ArdbSpeciesRows, MaxBatchRows)
                     [] data_type = "occurrences" ->
                            Batches(ArdbOccurrenceRows, MaxBatchRows)
                     [] OTHER -> {<<>>}
    /\ call_pc = "called"
    /\ row_no = 0
    /\ success_count = 0
    /\ error_count = 0
    /\ errors = <<>>
    /\ returned = <<>>
    /\ OpsIdle
    /\ ImporterIdle
    /\ NormIdle

\* the two early returns: unsupported data type, no data read
ImportRefused ==
    /\ call_pc = "called"
    /\ data_type \notin SupportedTypes \/ csv_data = <<>>
    /\ call_pc' = "returned"
    /\ returned' = <<0, 0, <<[error |-> IF data_type \notin SupportedTypes
                                        THEN "unsupported data type"
                                        ELSE "could not read the CSV file"]>> >>
    /\ UNCHANGED <<ardb, data_type, csv_data, row_no, success_count, error_count,
                   errors>>
    /\ UNCHANGED <<importer_vars, norm_vars, ops_vars>>

ImportStart ==
    /\ call_pc = "called"
    /\ data_type \in SupportedTypes
    /\ csv_data # <<>>
    /\ call_pc' = "loop"
    /\ UNCHANGED <<ardb, data_type, csv_data, row_no, success_count, error_count,
                   errors, returned>>
    /\ UNCHANGED <<importer_vars, norm_vars, ops_vars>>

\* one iteration of for i, row in enumerate(data, 1), its try and except
ImportRow ==
    /\ call_pc = "loop"
    /\ row_no < Len(csv_data)
    /\ LET i == row_no + 1
           row == csv_data[i]
           res == import_row(ardb, data_type, row)
       IN  /\ ardb' = res.db
           /\ success_count' = IF res.result = "true" THEN success_count + 1
                                ELSE success_count
           /\ error_count' = IF res.result = "true" THEN error_count
                              ELSE error_count + 1
           /\ errors' = AppendError(errors, i, res, row)
           /\ row_no' = i
    /\ UNCHANGED <<data_type, csv_data, call_pc, returned>>
    /\ UNCHANGED <<importer_vars, norm_vars, ops_vars>>

\* return success_count, error_count, errors
ImportReturn ==
    /\ call_pc = "loop"
    /\ row_no = Len(csv_data)
    /\ call_pc' = "returned"
    /\ returned' = <<success_count, error_count, errors>>
    /\ UNCHANGED <<ardb, data_type, csv_data, row_no, success_count, error_count,
                   errors>>
    /\ UNCHANGED <<importer_vars, norm_vars, ops_vars>>

ArdbNext ==
    \/ ImportRefused
    \/ ImportStart
    \/ ImportRow
    \/ ImportReturn

SpecARDB == ArdbInit /\ [][ArdbNext]_vars

(***************************************************************************)
(* Properties                                                              *)
(***************************************************************************)
\* a step that processed one input row
IsRowStep == last' # last

SameOccurrenceKey(o1, o2) ==
    /\ o1.site_id = o2.site_id
    /\ o1.species_id = o2.species_id
    /\ o1.method_id = o2.method_id
    /\ o1.unit = o2.unit

\* C1: a record row that failed after some of its writes were issued leaves
\* none of those writes in the committed store, whether or not a later row
\* commits (a committed row has all its writes there by CommitRow).
C1_RowAtomic ==
    \A w \in failed_writes :
        w.phase = "records" => w.id \notin Ids(committed[w.table])

\* C2: the occurrences table holds at most one row per natural key
\* (site id, species id, method id, unit), a null method id included.
C2_OneOccurrencePerKey ==
    \A o1, o2 \in committed.occurrences :
        SameOccurrenceKey(o1, o2) => o1 = o2

\* C3: for the successfully imported record rows that share one natural key,
\* the single occurrence row of that key holds the sum of their abundances.
C3_AdditiveMerge ==
    \A a \in accum :
        LET rows == {o \in committed.occurrences : OccKey(o) = a.key}
        IN  /\ Cardinality(rows) = 1
            /\ \A o \in rows : o.abundance = a.total

\* every stored row keeps its place; only an occurrence's abundance may change
Persists(before, after) ==
    \A t \in Tables : \A r \in before[t] :
        IF t = "occurrences"
        THEN \E q \in after[t] : q.id = r.id /\ OccKey(q) = OccKey(r)
        ELSE r \in after[t]

\* C4: in every phase a row that raised nothing has all its effects
\* committed when its iteration ends; a failing row changes nothing that is
\* committed and the loop goes on with the next row; committed rows are
\* never undone by a later step.
C4_Step ==
    /\ Persists(committed, committed')
    /\ IsRowStep =>
          /\ last'.outcome = "ok" => committed' = conn'
          /\ last'.outcome # "ok" => committed' = committed
          /\ last'.idx = idx /\ last'.phase = pc
          /\ pc' = pc /\ idx' = idx + 1

C4_FailureIsolation == [][C4_Step]_vars

\* a committed record row after a failed one
C4_Witness ==
    /\ last.phase = "records"
    /\ last.outcome = "ok"
    /\ error_log # <<>>
    /\ error_log[Len(error_log)].message = "Species not found"
    /\ error_log[Len(error_log)].row_index < last.idx
    /\ committed.occurrences # {}

\* C5: the error-log entry of a failed record row carries the row's position
\* in the batch counted from 1 and the unaltered raw row.
C5_ErrorEntry ==
    (last.phase = "records" /\ last.outcome = "error") =>
        LET entry == error_log[Len(error_log)]
        IN  /\ entry.row_index = last.idx + 1
            /\ "raw_row" \in DOMAIN entry
            /\ entry.raw_row = last.row

\* the composite key of a site row: reference id, site name, survey date
\* (absent as the empty string), latitude and longitude (absent as 0)
SiteKey(t) ==
    <<t.research_id, t.site_name, t.survey_date,
      IF t.latitude = NULL THEN 0 ELSE t.latitude[1],
      IF t.longitude = NULL THEN 0 ELSE t.longitude[1]>>

\* C6: no two survey_sites rows share the composite key (reference id, site
\* name, survey date, latitude, longitude), absent date and coordinates
\* counted as the empty string and zero.
C6_UniqueSiteKey ==
    \A t1, t2 \in conn.survey_sites \cup committed.survey_sites :
        SiteKey(t1) = SiteKey(t2) => t1 = t2

\* a row with latitude 0 has reused the site stored without a latitude
C6_Witness ==
    /\ last.phase = "records"
    /\ last.outcome = "ok"
    /\ last.row.latitude = Num(0)
    /\ ~last.site.created
    /\ \E t \in conn.survey_sites : t.id = last.site.site_id /\ t.latitude = NULL
    /\ Cardinality(conn.occurrences) >= 2

\* the site key a record row asks for, once its research row is resolved
RowSiteKey(research_id, row, columns) ==
    LET lat == RowGet(row, columns, "latitude", NaNCell)
        lon == RowGet(row, columns, "longitude", NaNCell)
    IN  <<research_id, normalize(row.site_name),
          normalize(RowGet(row, columns, "survey_date", EMPTY)),
          IF notna(lat) THEN lat.val ELSE 0,
          IF notna(lon) THEN lon.val ELSE 0>>

\* C7: when the site key of a record row matches a stored survey_sites row,
\* that row's id is reused and no column of any stored site row changes.
C7_Step ==
    (IsRowStep /\ last'.phase = "records") =>
        /\ conn.survey_sites \subseteq conn'.survey_sites
        /\ last'.site.research_id # 0 =>
              LET same == {t \in conn.survey_sites :
                             SiteKey(t) = RowSiteKey(last'.site.research_id,
                                                     last'.row, data.columns)}
              IN  same # {} =>
                    /\ last'.site.site_id \in Ids(same)
                    /\ conn'.survey_sites = conn.survey_sites

C7_FirstWriteWins == [][C7_Step]_vars

\* a repeat mention with another elevation and environment reused the site
C7_Witness ==
    /\ last.phase = "records"
    /\ last.outcome = "ok"
    /\ ~last.site.created
    /\ \E t \in conn.survey_sites :
          /\ t.id = last.site.site_id
          /\ t.elevation_m # NULL
          /\ last.row.elevation_m.kind = "num"
          /\ t.elevation_m[1] # last.row.elevation_m.val

\* ASCII upper case of a label
UpperChar(c) ==
    CASE c = "a" -> "A"
      [] c = "b" -> "B"
      [] OTHER   -> c

RECURSIVE Upper(_)
Upper(s) == IF s = <<>> THEN <<>> ELSE <<UpperChar(Head(s))>> \o Upper(Tail(s))

\* the first species row of a run, committed, with both names given
FirstRegistration ==
    /\ last.phase = "species"
    /\ last.idx = 0
    /\ last.outcome = "ok"
    /\ pc = "species"
    /\ normalize(last.row.scientific_name) # EMPTY
    /\ normalize(last.row.japanese_name) # EMPTY

RowAliases(row) ==
    IF isna(row.synonyms) THEN {}
    ELSE {a \in {split(row.synonyms)[i] : i \in 1..Len(split(row.synonyms))} :
            normalize(a) # EMPTY}

\* C8: after a species is registered on an empty store with scientific name
\* S, vernacular name V and aliases A, resolve_species of S, of V, of every
\* alias and of S in upper case all return the id of that species.
C8_ResolutionConsistency ==
    FirstRegistration =>
        \E s \in conn.species :
            /\ s.scientific_name = normalize(last.row.scientific_name)
            /\ resolve_species(conn, last.row.scientific_name) = {Some(s.id)}
            /\ resolve_species(conn, last.row.japanese_name) = {Some(s.id)}
            /\ resolve_species(conn, Upper(normalize(last.row.scientific_name)))
                  = {Some(s.id)}
            /\ \A a \in RowAliases(last.row) : resolve_species(conn, a) = {Some(s.id)}

\* a first registration with an alias and a scientific name whose upper case
\* differs from it
C8_Witness ==
    /\ FirstRegistration
    /\ RowAliases(last.row) # {}
    /\ Upper(normalize(last.row.scientific_name)) # normalize(last.row.scientific_name)

\* an alias of the row is already stored for another species
AliasCollision(db, row) ==
    \E a \in RowAliases(row) : \E y \in db.species_synonyms : \E s \in db.species :
        /\ y.name_normalized = normalize(a)
        /\ s.id = y.species_id
        /\ s.scientific_name # normalize(row.scientific_name)

\* C9: no two species_synonyms rows share a normalized name; a species row
\* whose alias collides with a stored synonym raises no error, the species
\* is registered all the same, and every stored synonym keeps its species
\* (rows during which the database file itself failed are left aside).
C9_Step ==
    (IsRowStep /\ last'.phase = "species" /\ last'.message # LOCKED) =>
        /\ \A y1, y2 \in conn'.species_synonyms :
              y1.name_normalized = y2.name_normalized => y1 = y2
        /\ conn.species_synonyms \subseteq conn'.species_synonyms
        /\ last'.outcome # "error"
        /\ AliasCollision(conn, last'.row) =>
              /\ last'.outcome = "ok"
              /\ \E s \in committed'.species :
                    s.scientific_name = normalize(last'.row.scientific_name)

RECURSIVE Collapse(_)
Collapse(s) ==
    IF Len(s) < 2 THEN s
    ELSE IF IsSpace(s[1]) /\ IsSpace(s[2]) THEN Collapse(Tail(s))
    ELSE <<s[1]>> \o Collapse(Tail(s))

NameKey(name) == Lower(Collapse(strip(NFKC(strip(name)))))

\* C10: a dimension table holds at most one row per distinct normalized
\* name; names that differ only in ASCII case, width form or the length of
\* whitespace runs get the same row.
C10_DimensionIdempotent ==
    \A table \in {"methods", "environment_types"} :
        \A d1, d2 \in conn[table] :
            NameKey(d1.name) = NameKey(d2.name) => d1 = d2

\* C11: two texts that differ only in width form, in leading or trailing
\* whitespace, in the length of internal whitespace runs or in ASCII case
\* get the same key, from normalize and from normalize_text.
C11_NormalizationEquivalence ==
    /\ norm.x = norm.y
    /\ norm.tx = norm.ty

\* C12: normalizing a normalized text changes nothing, and a missing or
\* empty value normalizes to the empty string.
C12_NormalizationIdempotent ==
    /\ norm.xx = norm.x
    /\ norm.txx = norm.tx
    /\ text_x \in {NA, EMPTY} => norm.x = EMPTY
    /\ text_x = EMPTY => norm.tx = EMPTY

\* a species row without a scientific name or without a vernacular name
EmptyName(row) ==
    \/ normalize(row.scientific_name) = EMPTY
    \/ normalize(row.japanese_name) = EMPTY

\* C13: a species row whose scientific or vernacular name is empty fails:
\* it is logged as an error of that row, and no species row and no synonym
\* row with an empty name is ever created.
C13_EmptyNameRejected ==
    /\ (last.phase = "species" /\ EmptyName(last.row)) =>
          /\ last.outcome = "error"
          /\ error_log # <<>>
          /\ error_log[Len(error_log)].row_index = last.idx
    /\ \A s \in conn.species :
          s.scientific_name # EMPTY /\ s.japanese_name # EMPTY
    /\ \A y \in conn.species_synonyms : y.name # EMPTY

\* the abundance cell of a record row is a negative number or has a fraction
BadAbundance(row, columns) ==
    /\ "abundance" \in columns
    /\ \/ row.abundance.kind = "frac"
       \/ row.abundance.kind = "num" /\ row.abundance.val < 0

\* C14: a record row whose abundance is negative or not an integer fails,
\* so it changes no occurrence row, and no occurrence row holds a negative
\* abundance.
C14_AbundanceValidated ==
    /\ (last.phase = "records" /\ BadAbundance(last.row, data.columns)) =>
          last.outcome = "error"
    /\ \A o \in conn.occurrences : o.abundance >= 0

\* the row has no abundance: records.csv has no such column, or the cell
\* is empty
AbundanceAbsent(row, columns) ==
    "abundance" \notin columns \/ row.abundance.kind = "nan"

\* the research title and the species name of the row resolve in the store
MandatoryResolve(db, row) ==
    /\ \E r \in db.research : EqNoCase(r.title, normalize(row.research_title))
    /\ NULL \notin resolve_species(db, normalize(row.species_name))

\* C15: a record row without an abundance whose research title and species
\* name resolve is imported, and counts as abundance 1.
C15_AbundanceDefault ==
    ( /\ last.phase = "records"
      /\ last.message # LOCKED
      /\ AbundanceAbsent(last.row, data.columns)
      /\ MandatoryResolve(conn, last.row) ) =>
        /\ last.outcome = "ok"
        /\ last.occ.abundance = 1

\* the research title of the row matches no research row of the store
ResearchUnmatched(db, row) ==
    ~ \E r \in db.research : EqNoCase(r.title, normalize(row.research_title))

\* C16: a record row whose research title matches no research row is logged
\* as an error of that row and changes no table: no research row, no
\* dimension row, no site and no occurrence is created for it.
C16_Step ==
    (IsRowStep /\ last'.phase = "records" /\ ResearchUnmatched(conn, last'.row)) =>
        /\ last'.outcome = "error"
        /\ last'.message \in {"Research not found", LOCKED}
        /\ error_log' = Append(error_log, [row_index |-> idx, message |-> last'.message])
        /\ conn' = conn
        /\ committed' = committed
        /\ pc' = pc /\ idx' = idx + 1

C16_NoFabricatedReference == [][C16_Step]_vars

\* a record row was rejected for its research title after other rows had
\* filled the store
C16_Witness ==
    /\ last.phase = "records"
    /\ last.outcome = "error"
    /\ last.message = "Research not found"
    /\ conn.research # {}
    /\ conn.survey_sites # {}
    /\ conn.occurrences # {}

\* the latest row failed because the database file failed
StoreFailed == last.phase # "none" /\ last.message = LOCKED

C17_Step ==
    (IsRowStep /\ last'.message = LOCKED) =>
        /\ last'.outcome = "error"
        /\ error_log' = Append(error_log, [row_index |-> idx, message |-> LOCKED])
        /\ committed' = committed
        /\ pc' = pc
        /\ pc \in {"species", "research", "records"}
        /\ idx' = idx + 1

PhaseRank(p) ==
    CASE p = "none"     -> 0
      [] p = "species"  -> 1
      [] p = "research" -> 2
      [] p = "records"  -> 3
      [] p = "finish"   -> 4
      [] p = "closed"   -> 5

\* C18: the run goes through the phases species, research, records in this
\* order and never back; within a phase the rows are processed one per step
\* at the positions 0, 1, 2, ... of the file.
C18_Step ==
    /\ PhaseRank(pc') >= PhaseRank(pc)
    /\ IsRowStep =>
          /\ pc' = pc
          /\ last'.phase = pc
          /\ last'.idx = idx
          /\ idx' = idx + 1
          /\ IF last.phase = pc
             THEN last'.idx = last.idx + 1
             ELSE PhaseRank(last.phase) < PhaseRank(pc) /\ last'.idx = 0

C18_PhaseOrder == [][C18_Step]_vars

\* the second record row, processed after species and research rows
C18_Witness ==
    /\ pc = "records"
    /\ last.phase = "records"
    /\ last.idx >= 1
    /\ committed.species # {}
    /\ committed.research # {}

\* C19: importing a species row that was imported before creates no species
\* row and no synonym row and changes no attribute: the store stays as it
\* was, and the row raises no error.
C19_Step ==
    ( /\ IsRowStep
      /\ last'.phase = "species"
      /\ last'.message # LOCKED
      /\ last'.row \in imported ) =>
        /\ conn' = conn
        /\ last'.outcome # "error"

CallResult(db, result) == [db |-> db, result |-> result]

\* occurrences.species_id REFERENCES species(id) ON DELETE RESTRICT
SpeciesRestricted(db, species_id) ==
    \E o \in db.occurrences : o.species_id = species_id

\* DELETE FROM species WHERE id = ?, with species_synonyms.species_id
\* REFERENCES species(id) ON DELETE CASCADE
DeleteSpeciesRow_KeepSynonyms(db, species_id) ==
    [db EXCEPT !.species = {s \in @ : s.id # species_id}]

DeleteSpeciesRow(db, species_id) ==
    [db EXCEPT !.species = {s \in @ : s.id # species_id},
               !.species_synonyms = {y \in @ : y.species_id # species_id}]

\* AntResearchDB.delete_species: the IntegrityError of a restricted delete
\* is caught, the transaction rolled back and False returned
delete_species(db, species_id) ==
    IF species_id \notin Ids(db.species) THEN CallResult(db, FALSE)
    ELSE IF SpeciesRestricted(db, species_id) THEN CallResult(db, FALSE)
    ELSE CallResult(DeleteSpeciesRow(db, species_id), TRUE)

\* AntResearchDB.delete_occurrence
delete_occurrence(db, occurrence_id) ==
    IF occurrence_id \notin Ids(db.occurrences) THEN CallResult(db, FALSE)
    ELSE CallResult([db EXCEPT !.occurrences = {o \in @ : o.id # occurrence_id}],
                    TRUE)

\* AntResearchDB.search_species(query, exact_match=True): the ids of the
\* species returned
search_species(db, query) ==
    IF query = EMPTY THEN {}
    ELSE {s.id : s \in {t \in db.species :
                          \E y \in db.species_synonyms :
                              /\ y.species_id = t.id
                              /\ y.name_normalized = normalize_text(query)}}

\* UPDATE species SET scientific_name = ?, japanese_name = ? WHERE id = ?
\* for the fields given
UpdateSpeciesRow(db, species_id, scientific_name, japanese_name) ==
    [db EXCEPT !.species =
        {IF s.id # species_id THEN s
         ELSE [s EXCEPT !.scientific_name =
                           IF scientific_name = NULL THEN @ ELSE scientific_name[1],
                        !.japanese_name =
                           IF japanese_name = NULL THEN @ ELSE japanese_name[1]]
         : s \in @}]

\* AntResearchDB.update_species(species_id, scientific_name=, japanese_name=,
\* synonyms=), each keyword optional (NULL when not passed)
update_species(db, species_id, scientific_name, japanese_name, synonyms) ==
    IF scientific_name = NULL /\ japanese_name = NULL THEN CallResult(db, FALSE)
    ELSE IF /\ scientific_name # NULL
            /\ \E s \in db.species :
                  s.scientific_name = scientific_name[1] /\ s.id # species_id
    THEN CallResult(db, FALSE)
    ELSE LET db1 == UpdateSpeciesRow(db, species_id, scientific_name, japanese_name)
             db2 == [db1 EXCEPT !.species_synonyms =
                        {y \in @ : ~(y.species_id = species_id /\ y.type = "synonym")}]
         IN  IF synonyms = NULL THEN CallResult(db1, TRUE)
             ELSE CallResult(add_synonyms(db2, species_id, synonyms[1]), TRUE)

\* AntResearchDB.delete_survey_site; occurrences.site_id REFERENCES
\* survey_sites(id) ON DELETE CASCADE
DeleteSiteRows(db, site_ids) ==
    [db EXCEPT !.survey_sites = {t \in @ : t.id \notin site_ids},
               !.occurrences = {o \in @ : o.site_id \notin site_ids}]

delete_survey_site(db, site_id) ==
    IF site_id \notin Ids(db.survey_sites) THEN CallResult(db, FALSE)
    ELSE CallResult(DeleteSiteRows(db, {site_id}), TRUE)

\* variant: the research row alone is deleted
DeleteResearchRow_NoCascade(db, research_id) ==
    [db EXCEPT !.research = {r \in @ : r.id # research_id}]

\* DELETE FROM research WHERE id = ?, with survey_sites.research_id
\* REFERENCES research(id) ON DELETE CASCADE
DeleteResearchRow(db, research_id) ==
    LET sites == {t.id : t \in {u \in db.survey_sites : u.research_id = research_id}}
        db1 == DeleteSiteRows(db, sites)
    IN  [db1 EXCEPT !.research = {r \in @ : r.id # research_id}]

\* AntResearchDB.delete_research
delete_research(db, research_id) ==
    IF research_id \notin Ids(db.research) THEN CallResult(db, FALSE)
    ELSE CallResult(DeleteResearchRow(db, research_id), TRUE)

\* UNIQUE on research.doi and on research.unique_hash
ResearchTaken(db, doi, unique_hash) ==
    \E r \in db.research :
        \/ r.unique_hash = unique_hash
        \/ doi # NULL /\ r.doi = doi

\* AntResearchDB.add_research: the lookup is by doi when one is given and
\* by hash otherwise; an INSERT that violates a UNIQUE constraint or the
\* CHECK year > 0 raises IntegrityError, which is rolled back to None
add_research(db, title, author, year, doi) ==
    LET unique_hash == generate_unique_hash(title, author, year)
        existing == IF doi # NULL
                    THEN {r \in db.research : r.doi = doi}
                    ELSE {r \in db.research : r.unique_hash = unique_hash}
        research_id == NextSeq(db, "research")
    IN  IF title = EMPTY \/ author = EMPTY \/ year = 0 THEN CallResult(db, NULL)
        ELSE IF existing # {} THEN CallResult(db, NULL)
        ELSE IF ResearchTaken(db, doi, unique_hash) \/ year < 0
        THEN CallResult(db, NULL)
        ELSE CallResult([db EXCEPT !.research = @ \cup
                            {[id |-> research_id, title |-> title,
                              author |-> author, year |-> year, doi |-> doi,
                              unique_hash |-> unique_hash]},
                            !.seq.research = research_id],
                        Some(research_id))

\* the value of a keyword argument, or the stored value when it is not passed
Given(arg, current) == IF arg = NULL THEN current ELSE arg[1]

\* variant: the UPDATE leaves unique_hash as it is
UpdateResearchRow_KeepHash(db, research_id, title, year, doi) ==
    [db EXCEPT !.research =
        {IF r.id # research_id THEN r
         ELSE [r EXCEPT !.title = Given(title, @),
                        !.year = Given(year, @),
                        !.doi = IF doi = NULL THEN @ ELSE doi]
         : r \in @}]

\* UPDATE research SET title = ?, year = ?, doi = ?, unique_hash = ? WHERE
\* id = ? for the fields given; unique_hash is set when title or year is
UpdateResearchRow(db, research_id, title, year, doi) ==
    [db EXCEPT !.research =
        {IF r.id # research_id THEN r
         ELSE [r EXCEPT !.title = Given(title, @),
                        !.year = Given(year, @),
                        !.doi = IF doi = NULL THEN @ ELSE doi,
                        !.unique_hash =
                           IF title = NULL /\ year = NULL THEN @
                           ELSE generate_unique_hash(Given(title, r.title), r.author,
                                                     Given(year, r.year))]
         : r \in @}]

\* AntResearchDB.update_research(research_id, title=, year=, doi=), each
\* keyword optional (NULL when not passed); an UPDATE that violates UNIQUE
\* on doi or CHECK year > 0 raises IntegrityError, rolled back to False
update_research(db, research_id, title, year, doi) ==
    IF title = NULL /\ year = NULL /\ doi = NULL THEN CallResult(db, FALSE)
    ELSE IF research_id \notin Ids(db.research) THEN CallResult(db, FALSE)
    ELSE LET current == CHOOSE r \in db.research : r.id = research_id
             unique_hash == generate_unique_hash(Given(title, current.title),
                                current.author, Given(year, current.year))
         IN  IF /\ (title # NULL \/ year # NULL)
                /\ \E r \in db.research :
                      r.unique_hash = unique_hash /\ r.id # research_id
             THEN CallResult(db, FALSE)
             ELSE IF \/ doi # NULL /\ \E r \in db.research :
                                         r.doi = doi /\ r.id # research_id
                     \/ year # NULL /\ year[1] <= 0
             THEN CallResult(db, FALSE)
             ELSE CallResult(UpdateResearchRow(db, research_id, title, year, doi),
                             TRUE)

\* AntResearchDB.add_survey_site called with a parsable date_start and
\* without coordinates: the UNIQUE constraint of survey_sites holds a NULL
\* latitude, so it never rejects the row
add_survey_site(db, research_id, site_name) ==
    LET site_id == NextSeq(db, "survey_sites")
    IN  IF site_name = EMPTY THEN CallResult(db, NULL)
        ELSE IF research_id \notin Ids(db.research) THEN CallResult(db, NULL)
        ELSE CallResult([db EXCEPT !.survey_sites = @ \cup
                            {[id |-> site_id, research_id |-> research_id,
                              site_name |-> site_name]},
                            !.seq.survey_sites = site_id],
                        Some(site_id))

\* the arguments the calls are made with
OpTitles == {T_TITLE, <<"b">>}
OpYears == {2020, 2021}
OpDois == {NULL, Some(<<"d">>)}
OpIds == {1, 2}
OpAbundances == {1, 3}
OpMethods == {NULL, Some(1)}

\* the import_from_csv call is not running
ImportIdle ==
    /\ data_type = "none"
    /\ csv_data = <<>>
    /\ call_pc = "idle"
    /\ row_no = 0
    /\ success_count = 0
    /\ error_count = 0
    /\ errors = <<>>
    /\ returned = <<>>

import_vars ==
    <<data_type, csv_data, call_pc, row_no, success_count, error_count, errors,
      returned>>

OpsInit ==
    /\ ImporterIdle
    /\ NormIdle
    /\ ImportIdle
    /\ ardb = Store0
    /\ op = NoCall
    /\ calls = 0

\* one call: `name` and `arg` identify it, `id` is the row it is about,
\* `before` the store it was made on
Call(name, id, arg, res) ==
    /\ calls < MaxOps
    /\ calls' = calls + 1
    /\ ardb' = res.db
    /\ op' = [name |-> name, id |-> id, arg |-> arg, result |-> res.result,
              before |-> ardb]
    /\ UNCHANGED <<importer_vars, norm_vars, import_vars>>

AddOccurrence ==
    \E site_id \in OpIds, species_id \in OpIds, method_id \in OpMethods,
       abundance \in OpAbundances :
        LET r == add_occurrence(ardb, site_id, species_id, method_id, Some(1),
                                abundance)
        IN  Call("add_occurrence", 0,
                 <<site_id, species_id, method_id, Some(1), abundance>>,
                 CallResult(r.db, r.id))

DeleteSpecies ==
    \E species_id \in OpIds :
        Call("delete_species", species_id, <<species_id>>,
             delete_species(ardb, species_id))

DeleteOccurrence ==
    \E occurrence_id \in OpIds :
        Call("delete_occurrence", occurrence_id, <<occurrence_id>>,
             delete_occurrence(ardb, occurrence_id))

AddSpecies ==
    \E scientific_name \in {T_AB, T_KA}, japanese_name \in {T_KAKI, T_KIKA},
       synonyms \in {<<>>, <<T_KA>>} :
        LET r == add_species(ardb, scientific_name, japanese_name, synonyms)
        IN  Call("add_species", 0, <<scientific_name, japanese_name, synonyms>>,
                 CallResult(r.db, r.id))

UpdateSpecies ==
    \E species_id \in OpIds, scientific_name \in {NULL, Some(T_AB), Some(T_KA)},
       japanese_name \in {NULL, Some(T_KAKI)}, synonyms \in {NULL, Some(<<T_KI>>)} :
        Call("update_species", species_id,
             <<species_id, scientific_name, japanese_name, synonyms>>,
             update_species(ardb, species_id, scientific_name, japanese_name,
                            synonyms))

AddResearch ==
    \E title \in OpTitles, year \in OpYears, doi \in OpDois :
        Call("add_research", 0, <<title, T_AUTHOR, year, doi>>,
             add_research(ardb, title, T_AUTHOR, year, doi))

UpdateResearch ==
    \E research_id \in OpIds, title \in {NULL} \cup {Some(t) : t \in OpTitles},
       year \in {NULL} \cup {Some(y) : y \in OpYears}, doi \in OpDois :
        Call("update_research", research_id, <<research_id, title, year, doi>>,
             update_research(ardb, research_id, title, year, doi))

DeleteResearch ==
    \E research_id \in OpIds :
        Call("delete_research", research_id, <<research_id>>,
             delete_research(ardb, research_id))

AddSurveySite ==
    \E research_id \in OpIds, site_name \in {T_SITE, EMPTY} :
        Call("add_survey_site", 0, <<research_id, site_name>>,
             add_survey_site(ardb, research_id, site_name))

DeleteSurveySite ==
    \E site_id \in OpIds :
        Call("delete_survey_site", site_id, <<site_id>>,
             delete_survey_site(ardb, site_id))

OpsNext ==
    \/ AddSpecies
    \/ UpdateSpecies
    \/ DeleteSpecies
    \/ AddResearch
    \/ UpdateResearch
    \/ DeleteResearch
    \/ AddSurveySite
    \/ DeleteSurveySite
    \/ AddOccurrence
    \/ DeleteOccurrence

SpecOps == OpsInit /\ [][OpsNext]_vars

\* C21: delete_species on an existing species that has occurrence records
\* returns True and leaves neither a species row with that id nor an
\* occurrence referencing it.
C21_Step ==
    (/\ op'.name = "delete_species"
     /\ calls' # calls
     /\ op'.id \in Ids(ardb.species)
     /\ SpeciesRestricted(ardb, op'.id))
    => /\ op'.result = TRUE
       /\ op'.id \notin Ids(ardb'.species)
       /\ ~SpeciesRestricted(ardb', op'.id)

C21_DeleteSpeciesCascades == [][C21_Step]_vars

\* the environment or the method of a record row normalizes to the empty string
EmptyDimension(row, columns) ==
    \/ normalize(RowGet(row, columns, "environment", SONOTA)) = EMPTY
    \/ normalize(RowGet(row, columns, "method", SONOTA)) = EMPTY

\* C22: get_or_create_id called with a name that normalizes to the empty
\* string fails: the record row it is called for ends as an error and does
\* not proceed, and no dimension row with an empty name is inserted.
C22_EmptyDimensionRejected ==
    /\ (last.phase = "records" /\ EmptyDimension(last.row, data.columns)) =>
          last.outcome = "error"
    /\ \A r \in conn.environment_types \cup conn.methods : r.name # EMPTY

\* C23: every synonym row written while a species row is registered
\* references the species row whose scientific_name is the one being
\* registered.
C23_Step ==
    (IsRowStep /\ last'.phase = "species" /\ last'.message # LOCKED) =>
        \A y \in conn'.species_synonyms \ conn.species_synonyms :
            \E s \in conn'.species :
                /\ s.id = y.species_id
                /\ s.scientific_name = normalize(last'.row.scientific_name)

C23_SynonymsOfRegisteredSpecies == [][C23_Step]_vars

\* the labels resolve_species is asked for
ResolveLabels == {T_AB, T_AB_UPPER, T_KA, T_KI, T_KAKI, <<"Z">>}

SynonymOwners(db, label) ==
    {y.species_id : y \in {z \in db.species_synonyms :
                             z.name_normalized = normalize(label)}}

ScientificOwners(db, label) ==
    {s.id : s \in {t \in db.species : EqNoCase(t.scientific_name, normalize(label))}}

VernacularOwners(db, label) ==
    {s.id : s \in {t \in db.species : EqNoCase(t.japanese_name, normalize(label))}}

C24_ScientificFallback ==
    \E label \in ResolveLabels :
        /\ SynonymOwners(conn, label) = {}
        /\ ScientificOwners(conn, label) # {}

\* a label with neither is answered from species.japanese_name
C24_VernacularFallback ==
    \E label \in ResolveLabels :
        /\ SynonymOwners(conn, label) = {}
        /\ ScientificOwners(conn, label) = {}
        /\ VernacularOwners(conn, label) # {}

\* C25: no two research rows have the same normalized title.
C25_OneResearchPerTitle ==
    \A r1, r2 \in conn.research :
        normalize(r1.title) = normalize(r2.title) => r1 = r2

\* every reference of the store points at a stored row
ReferentialIntegrity(db) ==
    /\ \A o \in db.occurrences :
          /\ o.site_id \in Ids(db.survey_sites)
          /\ o.species_id \in Ids(db.species)
    /\ \A t \in db.survey_sites : t.research_id \in Ids(db.research)
    /\ \A y \in db.species_synonyms : y.species_id \in Ids(db.species)

\* the survey sites of a research row
SitesOf(db, research_id) ==
    {t.id : t \in {u \in db.survey_sites : u.research_id = research_id}}

\* C26: referential integrity holds after every add_ and delete_ call, and
\* delete_research of a stored research row returns True and removes the
\* row, all its survey sites and all occurrences of those sites.
C26_Step ==
    /\ ReferentialIntegrity(ardb')
    /\ (calls' # calls /\ op'.name = "delete_research"
          /\ op'.id \in Ids(ardb.research)) =>
          /\ op'.result = TRUE
          /\ op'.id \notin Ids(ardb'.research)
          /\ \A t \in ardb'.survey_sites : t.research_id # op'.id
          /\ \A o \in ardb'.occurrences : o.site_id \notin SitesOf(ardb, op'.id)

C26_ReferentialIntegrity == [][C26_Step]_vars

\* a research row whose survey site has an occurrence has been deleted
C26_Witness ==
    /\ op.name = "delete_research"
    /\ op.result = TRUE
    /\ \E o \in op.before.occurrences : o.site_id \in SitesOf(op.before, op.id)

\* the names of a species: its scientific name, its Japanese name and the
\* names of its synonym rows
NamesOf(db, s) ==
    {s.scientific_name, s.japanese_name} \cup
    {y.name : y \in {z \in db.species_synonyms : z.species_id = s.id}}

\* C27: search_species(query, exact_match=True) finds every species by its
\* current scientific name, its current Japanese name and each of its
\* synonyms.
C27_SearchFindsSpecies ==
    \A s \in ardb.species :
        \A name \in NamesOf(ardb, s) : s.id \in search_species(ardb, name)

\* every row's hash is the hash of its title, author and year, and no two
\* rows share one
HashesConsistent(db) ==
    /\ \A r \in db.research :
          r.unique_hash = generate_unique_hash(r.title, r.author, r.year)
    /\ \A r1, r2 \in db.research : r1.unique_hash = r2.unique_hash => r1 = r2

\* update_research(research_id, title, year) on `db` would give the row
\* the hash of another row
HashCollision(db, research_id, title, year) ==
    /\ research_id \in Ids(db.research)
    /\ title # NULL \/ year # NULL
    /\ \E r1, r2 \in db.research :
          /\ r1.id = research_id
          /\ r2.id # research_id
          /\ r2.unique_hash = generate_unique_hash(Given(title, r1.title), r1.author,
                                                   Given(year, r1.year))

\* C28: after every add_research and update_research call each research
\* row's unique_hash is the hash of its current title, author and year and
\* no two rows share a hash; an update_research that would make two rows
\* share a hash returns False and leaves the store unchanged.
C28_Step ==
    /\ HashesConsistent(ardb')
    /\ (calls' # calls /\ op'.name = "update_research"
          /\ HashCollision(ardb, op'.arg[1], op'.arg[2], op'.arg[3])) =>
          /\ op'.result = FALSE
          /\ ardb' = ardb

C28_HashInvariant == [][C28_Step]_vars

\* an update_research that would have made two rows share a hash
C28_Witness ==
    /\ op.name = "update_research"
    /\ HashCollision(op.before, op.arg[1], op.arg[2], op.arg[3])
    /\ op.result = FALSE

\* an update_research that changed a row's title or year
C28_Rehashed ==
    /\ op.name = "update_research"
    /\ op.result = TRUE
    /\ \E r \in ardb.research : r.unique_hash \notin
                                   {q.unique_hash : q \in op.before.research}

\* an occurrences row whose four ids are numbers and whose (site, species,
\* method, unit) already has an occurrence row in `db`
DuplicateOccurrence(db, row) ==
    /\ row.site_id.kind = "num"
    /\ row.species_id.kind = "num"
    /\ row.method_id.kind = "num"
    /\ row.unit_id.kind = "num"
    /\ \E o \in db.occurrences :
          /\ o.site_id = row.site_id.val
          /\ o.species_id = row.species_id.val
          /\ o.method_id = Some(row.method_id.val)
          /\ o.unit_id = Some(row.unit_id.val)

\* C29: add_occurrence called for a (site, species, method, unit) that
\* already has an occurrence row returns None, inserts no row and leaves
\* the stored abundance, and import_from_csv counts the row as a failure.
C29_Step ==
    (/\ call_pc = "loop"
     /\ row_no' = row_no + 1
     /\ data_type = "occurrences"
     /\ DuplicateOccurrence(ardb, csv_data[row_no + 1])) =>
        LET row == csv_data[row_no + 1]
        IN  /\ add_occurrence(ardb, row.site_id.val, row.species_id.val,
                              Some(row.method_id.val), Some(row.unit_id.val),
                              IF row.abundance.kind = "num" THEN row.abundance.val
                              ELSE 1).id = NULL
            /\ ardb' = ardb
            /\ success_count' = success_count
            /\ error_count' = error_count + 1
            /\ Len(errors') = Len(errors) + 1

C29_DuplicateOccurrenceRefused == [][C29_Step]_vars

\* the second of two equal occurrence rows has been refused
C29_Witness ==
    /\ data_type = "occurrences"
    /\ row_no = 2
    /\ csv_data[1] = csv_data[2]
    /\ DuplicateOccurrence(ardb, csv_data[2])
    /\ Cardinality(ardb.occurrences) = 1
    /\ success_count = 1
    /\ error_count = 1

\* the run reaches the end of main()
C30_Terminates == <>(pc = "closed")

\* the error log is only ever appended to
C30_LogStep ==
    /\ Len(error_log') >= Len(error_log)
    /\ \A k \in 1..Len(error_log) : error_log'[k] = error_log[k]

C30_LogGrows == [][C30_LogStep]_vars

\* a processed row is either committed or logged with exactly one entry
C30_RowStep ==
    IsRowStep =>
        \/ /\ last'.outcome = "ok"
           /\ committed' = conn'
           /\ error_log' = error_log
        \/ /\ last'.outcome # "ok"
           /\ committed' = committed
           /\ Len(error_log') = Len(error_log) + 1

\* C30: under fair scheduling every run terminates, every processed row
\* ends in exactly one outcome, committed or logged with one entry (so that
\* committed rows plus error-log entries count the input rows), and the
\* error log only grows.
C30_FairTermination ==
    /\ C30_Terminates
    /\ C30_LogGrows
    /\ [][C30_RowStep]_vars

====
